---- MODULE Spec2Model ----
(***************************************************************************)
(* Model of app_final.py: three CSV-backed ledgers (leche, ganado,         *)
(* gasolina) behind a Streamlit script.  Every user event re-executes the  *)
(* script from the top: the three cached loaders run (lines 69-71), then   *)
(* the handler of the pressed button.  save_data_and_rerun writes the CSV, *)
(* clears that loader's cache and asks for a rerun of the script.          *)
(***************************************************************************)
EXTENDS Integers, Sequences, FiniteSets, TLC

VARIABLES file, cache, df, pc, form, msg, saved, media

vars == <<file, cache, df, pc, form, msg, saved, media>>

(***************************************************************************)
(* Bounds of the model.                                                    *)
(***************************************************************************)
\* Rows the three ledgers may hold together in Spec.
MaxRows == 2
\* Rows the ledger may hold in the specifications of one form.
BuildRows == 1
\* Rows the livestock ledger may hold in SpecGanado.
MaxGanado == 3
\* Bits of the significand of a binary floating-point number (Python's
\* float has 53; the rounding rule, round-half-to-even, is the same).
Precision == 5

Kinds == {"leche", "ganado", "gasolina"}

(***************************************************************************)
(* Binary floating point.  A float is <<m, e>>, the number m * 2^e, with   *)
(* 2^(Precision-1) <= |m| < 2^Precision, or <<0, 0>>.                      *)
(***************************************************************************)
Pow2(k) == 2 ^ k

Abs(n) == IF n < 0 THEN 0 - n ELSE n

Sign(n) == IF n < 0 THEN 0 - 1 ELSE 1

Min(a, b) == IF a < b THEN a ELSE b

RECURSIVE BitLen(_)
BitLen(a) == IF a = 0 THEN 0 ELSE 1 + BitLen(a \div 2)

Zero == <<0, 0>>

\* The float nearest to n * 2^e, ties to the even significand.
RoundF(n, e) ==
    IF n = 0 THEN Zero
    ELSE LET a == Abs(n)
             b == BitLen(a)
         IN  IF b <= Precision
             THEN <<Sign(n) * a * Pow2(Precision - b), e - (Precision - b)>>
             ELSE LET sh   == b - Precision
                      q    == a \div Pow2(sh)
                      r    == a % Pow2(sh)
                      half == Pow2(sh - 1)
                      q1   == IF r > half \/ (r = half /\ q % 2 = 1)
                              THEN q + 1 ELSE q
                  IN  IF q1 = Pow2(Precision)
                      THEN <<Sign(n) * Pow2(Precision - 1), e + sh + 1>>
                      ELSE <<Sign(n) * q1, e + sh>>

\* The exact difference x - y as an integer n and an exponent e: n * 2^e.
DiffN(x, y) ==
    LET em == Min(x[2], y[2])
    IN  x[1] * Pow2(x[2] - em) - y[1] * Pow2(y[2] - em)

DiffE(x, y) == Min(x[2], y[2])

SumN(x, y) ==
    LET em == Min(x[2], y[2])
    IN  x[1] * Pow2(x[2] - em) + y[1] * Pow2(y[2] - em)

\* Python's float operators.
FSub(x, y) == RoundF(DiffN(x, y), DiffE(x, y))

FAdd(x, y) == RoundF(SumN(x, y), DiffE(x, y))

FMul(x, y) == RoundF(x[1] * y[1], x[2] + y[2])

\* x / y for y # 0: the quotient to Precision + 2 bits and a sticky bit.
FDiv(x, y) ==
    IF x[1] = 0 THEN Zero
    ELSE LET k   == Precision + 2
             num == Abs(x[1]) * Pow2(k)
             q   == num \div Abs(y[1])
             r   == num % Abs(y[1])
             n   == 2 * q + (IF r = 0 THEN 0 ELSE 1)
         IN  RoundF(Sign(x[1]) * Sign(y[1]) * n, x[2] - y[2] - k - 1)

FGt(x, y) == DiffN(x, y) > 0

FGe(x, y) == DiffN(x, y) >= 0

\* float(n) of an integer, and the float n * 2^e of a decimal typed in a form.
F(n, e) == RoundF(n, e)

FInt(n) == RoundF(n, 0)

(***************************************************************************)
(* Tables.  A table is a sequence of rows; row i of the model is the row   *)
(* with index (ID_Fila) i - 1.  A row is a record over the ledger's        *)
(* columns.  In memory a text column holds cells: a str, a number that the *)
(* CSV reader inferred from digits, or NaN (a missing value).  A numeric   *)
(* column holds floats and Fecha holds a day number (a Timestamp).  In a   *)
(* file a text column holds the field's text; a float is written by its    *)
(* shortest repr and a date in ISO form, which read back as the same float *)
(* and the same day, so the model keeps the value for both.                *)
(***************************************************************************)
Str(s) == [t |-> "str", v |-> s]

Num(s) == [t |-> "num", v |-> s]

NaN == [t |-> "nan", v |-> ""]

IdCol(k) ==
    CASE k = "leche" -> "ID_Lote"
      [] k = "ganado" -> "ID_Animal"
      [] k = "gasolina" -> "ID_Ruta"

TextCols(k) ==
    CASE k = "leche" -> {"ID_Lote"}
      [] k = "ganado" -> {"ID_Animal", "Nombre_Animal", "Raza"}
      [] k = "gasolina" -> {"ID_Ruta"}

\* Field texts that pandas.read_csv reads as a missing value (its default
\* na_values, those the forms of the model can produce).
NaTexts == {"", "NA"}

\* Field texts that pandas.read_csv reads as a number.
Numerals == {"7"}

\* DataFrame.to_csv: one field per cell; NaN is written as the empty field
\* (na_rep = ''), a str and a number by their text.
FormatCell(c) == IF c.t = "nan" THEN "" ELSE c.v

FormatRow(k, r) ==
    [c \in DOMAIN r |-> IF c \in TextCols(k) THEN FormatCell(r[c]) ELSE r[c]]

ToCsv(k, tab) == [i \in 1..Len(tab) |-> FormatRow(k, tab[i])]

\* pandas.read_csv: a column whose fields are all numerals or missing is a
\* numeric column, any other column is an object column of str; a missing
\* field is NaN in both.
ColIsNumeric(rows, c) ==
    \A i \in 1..Len(rows) : rows[i][c] \in NaTexts \cup Numerals

ParseCell(txt, numeric) ==
    IF txt \in NaTexts THEN NaN
    ELSE IF numeric THEN Num(txt) ELSE Str(txt)

ParseRow(k, rows, r) ==
    [c \in DOMAIN r |->
        IF c \in TextCols(k) THEN ParseCell(r[c], ColIsNumeric(rows, c))
        ELSE r[c]]

ReadCsv(k, rows) == [i \in 1..Len(rows) |-> ParseRow(k, rows, rows[i])]

NoFile == [exists |-> FALSE, rows |-> <<>>]

NoEntry == [hit |-> FALSE, tab |-> <<>>]

(***************************************************************************)
(* The cached loaders, lines 19-52, and the loads of lines 69-71.          *)
(***************************************************************************)
\* What load_data_<k>() returns: the cache entry when there is one, else
\* the file read, else the empty frame with the ledger's columns.
LoadData(k) ==
    IF cache[k].hit THEN cache[k].tab
    ELSE IF file[k].exists THEN ReadCsv(k, file[k].rows)
    ELSE <<>>

\* df_leche, df_gasolina, df_ganado of one run of the script.
LoadAll == [k \in Kinds |-> LoadData(k)]

\* st.cache_data keeps what the loader returned.
CacheFilled(d) == [k \in Kinds |-> [hit |-> TRUE, tab |-> d[k]]]

\* Mutant: st.cache_data.clear(), the entries of all loaders are dropped.
CacheAfterSaveClearAll(c, k) == [j \in Kinds |-> NoEntry]

\* Mutant: the loader's entry is not dropped.
CacheAfterSaveNoClear(c, k) == c

\* load_data_<k>.clear() of save_data_and_rerun, lines 59-64.
CacheAfterSave(c, k) == [c EXCEPT ![k] = NoEntry]

\* Mutant: to_csv with mode='a', the table is added to the file's rows.
FileAfterSaveAppend(f, k, tab) ==
    [f EXCEPT ![k] = [exists |-> TRUE, rows |-> f[k].rows \o ToCsv(k, tab)]]

\* df.to_csv(filename, index=False), line 56.
FileAfterSave(f, k, tab) ==
    [f EXCEPT ![k] = [exists |-> TRUE, rows |-> ToCsv(k, tab)]]

(***************************************************************************)
(* The record of each form, lines 116-130, 238-244 and 349-363.            *)
(***************************************************************************)
\* Mutant: the sale loss with its operands exchanged.
NewRowLecheSwapped(in) ==
    [Fecha          |-> in.fecha_registro,
     ID_Lote        |-> Str(in.id_lote),
     Vol_Entregado  |-> in.vol_entregado,
     Vol_Pesado     |-> in.vol_pesado,
     Vol_Vendido    |-> in.vol_vendido,
     Perdida_Pesaje |-> FSub(in.vol_entregado, in.vol_pesado),
     Perdida_Venta  |-> FSub(in.vol_vendido, in.vol_pesado),
     Perdida_Total  |-> FSub(in.vol_entregado, in.vol_vendido)]

\* new_row of registro_leche with its three losses.
NewRowLeche(in) ==
    [Fecha          |-> in.fecha_registro,
     ID_Lote        |-> Str(in.id_lote),
     Vol_Entregado  |-> in.vol_entregado,
     Vol_Pesado     |-> in.vol_pesado,
     Vol_Vendido    |-> in.vol_vendido,
     Perdida_Pesaje |-> FSub(in.vol_entregado, in.vol_pesado),
     Perdida_Venta  |-> FSub(in.vol_pesado, in.vol_vendido),
     Perdida_Total  |-> FSub(in.vol_entregado, in.vol_vendido)]

\* new_row_ganado of registro_ganado.
NewRowGanado(in) ==
    [Fecha          |-> in.fecha_pesaje,
     ID_Animal      |-> Str(in.id_animal),
     Nombre_Animal  |-> Str(in.nombre_animal),
     Raza           |-> Str(in.raza_animal),
     Litros_Pesados |-> in.litros_pesados]

\* The marker of a raised ZeroDivisionError; no float has m = 0 and e # 0.
Raised == <<0, 1>>

\* Python's x / y on floats.
PyDiv(x, y) == IF y[1] = 0 THEN Raised ELSE FDiv(x, y)

\* Mutant: the division without its guard.
EficienciaUnguarded(km, litros) == PyDiv(km, litros)

\* eficiencia, line 351.
Eficiencia(km, litros) == IF FGt(litros, Zero) THEN PyDiv(km, litros) ELSE Zero

\* new_row_gasolina of registro_gasolina.
NewRowGasolina(in) ==
    [Fecha               |-> in.fecha_gasolina,
     ID_Ruta             |-> Str(in.id_ruta),
     Litros_Cargados     |-> in.litros_cargados,
     Costo_Litro         |-> in.costo_litro,
     Km_Recorridos       |-> in.km_recorridos,
     Gasto_Total         |-> FMul(in.litros_cargados, in.costo_litro),
     Eficiencia_Km_Litro |-> Eficiencia(in.km_recorridos, in.litros_cargados)]

(***************************************************************************)
(* The validation of each form: the st.error it ends in, or "ok".          *)
(***************************************************************************)
\* Mutant: the volumes are not compared.
CheckLecheIdOnly(in) == IF in.id_lote = "" THEN "error_id" ELSE "ok"

\* Mutant: the sold volume compared with the delivered one.
CheckLecheWrongCompare(in) ==
    IF FGt(in.vol_pesado, in.vol_entregado) \/ FGt(in.vol_vendido, in.vol_entregado)
    THEN "error_volumen"
    ELSE IF in.id_lote = "" THEN "error_id"
    ELSE "ok"

\* Lines 106-110.
CheckLeche(in) ==
    IF FGt(in.vol_pesado, in.vol_entregado) \/ FGt(in.vol_vendido, in.vol_pesado)
    THEN "error_volumen"
    ELSE IF in.id_lote = "" THEN "error_id"
    ELSE "ok"

\* Mutant: the animal identifier is not checked.
CheckGanadoNoId(in) == "ok"

\* Lines 233-235.
CheckGanado(in) == IF in.id_animal = "" THEN "error_id" ELSE "ok"

\* Mutant: the branch of line 346 is missing.
CheckGasolinaNoLitros(in) ==
    IF in.id_ruta = "" THEN "error_id"
    ELSE IF in.km_recorridos = Zero /\ FGt(in.litros_cargados, Zero)
    THEN "error_km"
    ELSE "ok"

\* Lines 342-348.
CheckGasolina(in) ==
    IF in.id_ruta = "" THEN "error_id"
    ELSE IF in.km_recorridos = Zero /\ FGt(in.litros_cargados, Zero)
    THEN "error_km"
    ELSE IF in.litros_cargados = Zero /\ FGt(in.km_recorridos, Zero)
    THEN "error_litros"
    ELSE "ok"

ErrorMsgs == {"error_volumen", "error_id", "error_km", "error_litros"}

(***************************************************************************)
(* produccion_media, lines 255-261: groupby('ID_Animal').agg(...),         *)
(* reset_index, sort_values(by='Promedio_Diario', ascending=False).        *)
(***************************************************************************)
\* The group keys: groupby leaves out the rows whose key is NaN.
GroupKeys(tab) == {tab[i].ID_Animal : i \in 1..Len(tab)} \ {NaN}

GroupRows(tab, id) == {i \in 1..Len(tab) : tab[i].ID_Animal = id}

SetMax(S) == CHOOSE x \in S : \A y \in S : y <= x

\* 'last': the last value of the group that is not NaN, NaN when there is none.
AggLast(tab, id, col) ==
    LET nn == {i \in GroupRows(tab, id) : tab[i][col] # NaN}
    IN  IF nn = {} THEN NaN ELSE tab[SetMax(nn)][col]

\* 'sum': the floats of the group added in row order.
RECURSIVE AggSum(_, _, _)
AggSum(tab, id, n) ==
    IF n = 0 THEN Zero
    ELSE IF tab[n].ID_Animal = id
         THEN FAdd(AggSum(tab, id, n - 1), tab[n].Litros_Pesados)
         ELSE AggSum(tab, id, n - 1)

\* 'count'.
AggCount(tab, id) == Cardinality(GroupRows(tab, id))

\* Mutant: the mean over the rows of the whole frame.
AggMeanAllRows(tab, id) == FDiv(AggSum(tab, id, Len(tab)), FInt(Len(tab)))

\* 'mean': the sum over the count.
AggMean(tab, id) == FDiv(AggSum(tab, id, Len(tab)), FInt(AggCount(tab, id)))

AggRow(tab, id) ==
    [ID_Animal       |-> id,
     Nombre          |-> AggLast(tab, id, "Nombre_Animal"),
     Raza            |-> AggLast(tab, id, "Raza"),
     Total_Pesado    |-> AggSum(tab, id, Len(tab)),
     Promedio_Diario |-> AggMean(tab, id),
     Total_Registros |-> AggCount(tab, id)]

\* Mutant: ascending=False is missing.
IsSortedAsc(t) ==
    \A i \in 1..(Len(t) - 1) : FGe(t[i + 1].Promedio_Diario, t[i].Promedio_Diario)

\* sort_values(ascending=False): the rows in an order of descending
\* Promedio_Diario.
IsSortedDesc(t) ==
    \A i \in 1..(Len(t) - 1) : FGe(t[i].Promedio_Diario, t[i + 1].Promedio_Diario)

\* The tables produccion_media may be: one row per group; the default sort
\* is not stable, so rows of equal mean come in any order.  The branch of
\* line 253 computes nothing for an empty frame.
ProduccionMedia(tab) ==
    LET rows == {AggRow(tab, id) : id \in GroupKeys(tab)}
        n    == Cardinality(rows)
    IN  {t \in [1..n -> rows] :
            /\ \A i, j \in 1..n : i # j => t[i] # t[j]
            /\ IsSortedDesc(t)}

(***************************************************************************)
(* The row eraser, lines 183-185: drop(indices).reset_index(drop=True).    *)
(***************************************************************************)
\* The j-th smallest element of a set of integers.
Nth(S, j) == CHOOSE i \in S : Cardinality({x \in S : x <= i}) = j

\* Mutant: the selection taken as 1-based row numbers.
DropRowsOneBased(tab, sel) ==
    LET keep == {i \in 1..Len(tab) : i \notin sel}
    IN  [j \in 1..Cardinality(keep) |-> tab[Nth(keep, j)]]

\* sel holds ID_Fila values, the 0-based row indices.
DropRows(tab, sel) ==
    LET keep == {i \in 1..Len(tab) : (i - 1) \notin sel}
    IN  [j \in 1..Cardinality(keep) |-> tab[Nth(keep, j)]]

(***************************************************************************)
(* The state.                                                              *)
(*   file[k]   the CSV of ledger k: whether it exists, and its rows        *)
(*   cache[k]  the st.cache_data entry of load_data_<k>                    *)
(*   df[s]     df_leche, df_ganado, df_gasolina of session s's last run    *)
(*   pc[s]     "run": a run of the script is due (the session has just     *)
(*             started, or st.experimental_rerun() was called);            *)
(*             "idle": the page is drawn and waits for the user            *)
(*   form[s]   the values of the form submitted last                       *)
(*   msg[s]    the st.error / st.info / st.warning of the last run         *)
(*   saved     the ledger and the frame of the last save_data_and_rerun    *)
(*   media[s]  produccion_media as last computed                           *)
(***************************************************************************)
Sessions == DOMAIN pc

NoForm == [kind |-> "none"]

NoSave == [kind |-> "none", tab |-> <<>>]

Init ==
    /\ file = [k \in Kinds |-> NoFile]
    /\ cache = [k \in Kinds |-> NoEntry]
    /\ df = [s \in {1} |-> [k \in Kinds |-> <<>>]]
    /\ pc = [s \in {1} |-> "run"]
    /\ form = [s \in {1} |-> NoForm]
    /\ msg = [s \in {1} |-> "none"]
    /\ saved = NoSave
    /\ media = [s \in {1} |-> <<>>]

\* A run of the script that reaches its last line: the loaders of lines
\* 69-71 fill the cache, line 255 computes produccion_media, m is the
\* message its handler showed.
RunToEnd(s, d, m) ==
    /\ file' = file
    /\ cache' = CacheFilled(d)
    /\ df' = [df EXCEPT ![s] = d]
    /\ pc' = [pc EXCEPT ![s] = "idle"]
    /\ msg' = [msg EXCEPT ![s] = m]
    /\ saved' = saved
    /\ media' \in {[media EXCEPT ![s] = t] : t \in ProduccionMedia(d.ganado)}

\* save_data_and_rerun(tab, file of k), lines 55-66, in a run that loaded
\* d: the file is written, the loader's cache is cleared, the run ends
\* there and a new run is due.  after255 tells whether the handler stands
\* below line 255 of the script.
SaveDataAndRerun(s, d, k, tab, m, after255) ==
    /\ file' = FileAfterSave(file, k, tab)
    /\ cache' = CacheAfterSave(CacheFilled(d), k)
    /\ df' = [df EXCEPT ![s] = d]
    /\ pc' = [pc EXCEPT ![s] = "run"]
    /\ msg' = [msg EXCEPT ![s] = m]
    /\ saved' = [kind |-> k, tab |-> tab]
    /\ IF after255
       THEN media' \in {[media EXCEPT ![s] = t] : t \in ProduccionMedia(d.ganado)}
       ELSE media' = media

\* A run with no button pressed: the first run of a session, the run that
\* st.experimental_rerun() asked for, or a run after any other widget event.
ScriptRun(s) ==
    /\ form' = form
    /\ RunToEnd(s, LoadAll, "none")

\* "Registrar Lote y Calcular Perdidas", lines 105-133.
SubmitLeche(s, in) ==
    /\ pc[s] = "idle"
    /\ form' = [form EXCEPT ![s] = in]
    /\ IF CheckLeche(in) = "ok"
       THEN SaveDataAndRerun(s, LoadAll, "leche",
                             Append(LoadData("leche"), NewRowLeche(in)),
                             "none", FALSE)
       ELSE RunToEnd(s, LoadAll, CheckLeche(in))

\* "Registrar Pesaje del Animal", lines 232-247.
SubmitGanado(s, in) ==
    /\ pc[s] = "idle"
    /\ form' = [form EXCEPT ![s] = in]
    /\ IF CheckGanado(in) = "ok"
       THEN SaveDataAndRerun(s, LoadAll, "ganado",
                             Append(LoadData("ganado"), NewRowGanado(in)),
                             "none", FALSE)
       ELSE RunToEnd(s, LoadAll, CheckGanado(in))

\* "Registrar Consumo y Calcular Eficiencia", lines 341-366.  A division by
\* zero at line 351 would end the run with the exception shown.
SubmitGasolina(s, in) ==
    /\ pc[s] = "idle"
    /\ form' = [form EXCEPT ![s] = in]
    /\ IF CheckGasolina(in) # "ok"
       THEN RunToEnd(s, LoadAll, CheckGasolina(in))
       ELSE IF Eficiencia(in.km_recorridos, in.litros_cargados) = Raised
       THEN RunToEnd(s, LoadAll, "ZeroDivisionError")
       ELSE SaveDataAndRerun(s, LoadAll, "gasolina",
                             Append(LoadData("gasolina"), NewRowGasolina(in)),
                             "none", TRUE)

\* Mutant: the test of the selection is missing, every press saves.
DeleteRowsAlwaysSave(s, k, sel, after255) ==
    /\ pc[s] = "idle"
    /\ Len(LoadData(k)) > 0
    /\ sel \subseteq 0..(Len(LoadData(k)) - 1)
    /\ form' = form
    /\ SaveDataAndRerun(s, LoadAll, k, DropRows(LoadData(k), sel),
                        "warning", after255)

\* The three "Eliminar Registros Seleccionados" buttons.  The section is
\* drawn only for a frame that is not empty; sel is what the multiselect
\* holds, ID_Fila values of the frame of this run.
DeleteRows(s, k, sel, after255) ==
    /\ pc[s] = "idle"
    /\ Len(LoadData(k)) > 0
    /\ sel \subseteq 0..(Len(LoadData(k)) - 1)
    /\ form' = form
    /\ IF sel # {}
       THEN SaveDataAndRerun(s, LoadAll, k, DropRows(LoadData(k), sel),
                             "warning", after255)
       ELSE RunToEnd(s, LoadAll, "info")

\* Lines 181-190.
DeleteLeche(s, sel) == DeleteRows(s, "leche", sel, FALSE)

\* Lines 298-307.
DeleteGanado(s, sel) == DeleteRows(s, "ganado", sel, TRUE)

\* Lines 424-433.
DeleteGasolina(s, sel) == DeleteRows(s, "gasolina", sel, TRUE)

(***************************************************************************)
(* The values typed into the forms, and the specifications.                *)
(***************************************************************************)
FormsLeche(ids, vols) ==
    {[kind |-> "leche", fecha_registro |-> 1, id_lote |-> i,
      vol_entregado |-> d, vol_pesado |-> w, vol_vendido |-> v] :
        i \in ids, d \in vols, w \in vols, v \in vols}

FormsGanado(ids, nombres, razas, vols) ==
    {[kind |-> "ganado", fecha_pesaje |-> 1, id_animal |-> i,
      nombre_animal |-> n, raza_animal |-> r, litros_pesados |-> v] :
        i \in ids, n \in nombres, r \in razas, v \in vols}

FormsGasolina(ids, litros, kms, costos) ==
    {[kind |-> "gasolina", fecha_gasolina |-> 1, id_ruta |-> i,
      litros_cargados |-> l, km_recorridos |-> k, costo_litro |-> c] :
        i \in ids, l \in litros, k \in kms, c \in costos}

Rows(k) == Len(file[k].rows)

TotalRows == Rows("leche") + Rows("ganado") + Rows("gasolina")

\* Spec: one session on the three ledgers.
InLeche == FormsLeche({"", "A"}, {Zero, FInt(5)})

InGanado == FormsGanado({"", "A", "NA"}, {"", "Luna"}, {"Holstein"}, {FInt(5)})

InGasolina == FormsGasolina({"", "7"}, {Zero, FInt(20)}, {Zero, FInt(50)}, {FInt(2)})

Sels(n) == SUBSET (0..(n - 1))

Next ==
    \/ \E s \in Sessions : ScriptRun(s)
    \/ \E s \in Sessions, in \in InLeche :
          TotalRows < MaxRows /\ SubmitLeche(s, in)
    \/ \E s \in Sessions, in \in InGanado :
          TotalRows < MaxRows /\ SubmitGanado(s, in)
    \/ \E s \in Sessions, in \in InGasolina :
          TotalRows < MaxRows /\ SubmitGasolina(s, in)
    \/ \E s \in Sessions, sel \in Sels(MaxRows) : DeleteLeche(s, sel)
    \/ \E s \in Sessions, sel \in Sels(MaxRows) : DeleteGanado(s, sel)
    \/ \E s \in Sessions, sel \in Sels(MaxRows) : DeleteGasolina(s, sel)

Spec == Init /\ [][Next]_vars

(***************************************************************************)
(* Properties of the store and of the rejected submit, under Spec.         *)
(***************************************************************************)
\* C1: once save_data_and_rerun(T, file of k) has completed, the next load
\* of k returns T, also when the loader had cached an older table before:
\* in a session whose script has run again after the save, df of k is T.
C1_LoadAfterPersistReturnsT ==
    \A s \in Sessions :
        (saved.kind # "none" /\ pc[s] = "idle") => df[s][saved.kind] = saved.tab

\* C2: round trip: the file written from T reads back as a table equal to T
\* in every field of every row and in row order.
C2_RoundTrip ==
    saved.kind # "none" =>
        /\ file[saved.kind].exists
        /\ ReadCsv(saved.kind, file[saved.kind].rows) = saved.tab

\* What the forms are required to hold.
ValidLeche(in) ==
    /\ in.id_lote # ""
    /\ FGe(in.vol_entregado, in.vol_pesado)
    /\ FGe(in.vol_pesado, in.vol_vendido)
    /\ FGe(in.vol_vendido, Zero)

ValidGanado(in) == in.id_animal # ""

ValidGasolina(in) ==
    /\ in.id_ruta # ""
    /\ (in.litros_cargados = Zero) = (in.km_recorridos = Zero)

StoreUnchanged == file' = file /\ cache' = cache /\ df' = df /\ saved' = saved /\ pc' = pc

\* The step appended the one row r to the file of k and wrote nothing else.
Persisted(k, r) ==
    /\ saved'.kind = k
    /\ Len(file'[k].rows) = Len(file[k].rows) + 1
    /\ file'[k].rows[Len(file'[k].rows)] = FormatRow(k, r)
    /\ \A j \in Kinds \ {k} : file'[j] = file[j]

\* C3: a submit whose input fails validation changes neither the files, nor
\* the cache, nor the frames in memory, and saves nothing; every submit
\* either appends its full record to the file or leaves the store as it was.
C3_RejectedSubmitChangesNothing ==
    [][\A s \in Sessions :
        /\ \A in \in InLeche : SubmitLeche(s, in) =>
              /\ ~ValidLeche(in) => StoreUnchanged
              /\ Persisted("leche", NewRowLeche(in)) \/ StoreUnchanged
        /\ \A in \in InGanado : SubmitGanado(s, in) =>
              /\ ~ValidGanado(in) => StoreUnchanged
              /\ Persisted("ganado", NewRowGanado(in)) \/ StoreUnchanged
        /\ \A in \in InGasolina : SubmitGasolina(s, in) =>
              /\ ~ValidGasolina(in) => StoreUnchanged
              /\ Persisted("gasolina", NewRowGasolina(in)) \/ StoreUnchanged
    ]_vars

\* A submit was rejected while the ledgers held rows and the cache entries.
C3_Witness ==
    \E s \in Sessions :
        /\ msg[s] \in ErrorMsgs
        /\ TotalRows > 0
        /\ \A k \in Kinds : cache[k].hit

\* C6: a submit with an empty identifier appends nothing, so that no record
\* of a ledger reached by submits and deletes has an empty identifier: no
\* row of a ledger's file has the empty text in its identifier column.
C6_NoEmptyIdentifier ==
    \A k \in Kinds : \A i \in 1..Len(file[k].rows) :
        file[k].rows[i][IdCol(k)] # ""

(***************************************************************************)
(* SpecLeche: the milk form alone.                                         *)
(***************************************************************************)
\* 10, 12 and 5 litres with and without a lot; 0, 0.25 and 8.5 litres.
InLecheB ==
    FormsLeche({"", "A"}, {FInt(5), FInt(10), FInt(12)})
        \cup FormsLeche({"A"}, {Zero, F(1, 0 - 2), F(17, 0 - 1)})

NextLeche ==
    \/ \E s \in Sessions : ScriptRun(s)
    \/ \E s \in Sessions, in \in InLecheB :
          Rows("leche") < BuildRows /\ SubmitLeche(s, in)
    \/ \E s \in Sessions, sel \in Sels(BuildRows) : DeleteLeche(s, sel)

SpecLeche == Init /\ [][NextLeche]_vars

\* The submit of session s ended in an st.error and left the store alone.
Failed(s) == msg'[s] \in ErrorMsgs /\ StoreUnchanged

\* C4: the milk form fails for every input with weighed > delivered or
\* sold > weighed, and its record is appended for every input with a lot
\* identifier and delivered >= weighed >= sold >= 0.
C4_MilkValidation ==
    [][\A s \in Sessions : \A in \in InLecheB : SubmitLeche(s, in) =>
        /\ (FGt(in.vol_pesado, in.vol_entregado) \/ FGt(in.vol_vendido, in.vol_pesado))
              => Failed(s)
        /\ ValidLeche(in) => Persisted("leche", NewRowLeche(in))
    ]_vars

\* delivered = 10, weighed = 12, sold = 5 was submitted and rejected.
C4_Witness ==
    \E s \in Sessions :
        /\ form[s] = [kind |-> "leche", fecha_registro |-> 1, id_lote |-> "A",
                      vol_entregado |-> FInt(10), vol_pesado |-> FInt(12),
                      vol_vendido |-> FInt(5)]
        /\ msg[s] = "error_volumen"

\* The numbers n1 * 2^e1 and n2 * 2^e2 are equal.
SameValue(n1, e1, n2, e2) ==
    n1 * Pow2(e1 - Min(e1, e2)) = n2 * Pow2(e2 - Min(e1, e2))

\* z is x - y with no rounding.
ExactSub(x, y, z) == SameValue(DiffN(x, y), DiffE(x, y), z[1], z[2])

LecheRows == {file["leche"].rows[i] : i \in 1..Len(file["leche"].rows)}

LossesAreDifferences(r) ==
    /\ r.Perdida_Pesaje = FSub(r.Vol_Entregado, r.Vol_Pesado)
    /\ r.Perdida_Venta = FSub(r.Vol_Pesado, r.Vol_Vendido)
    /\ r.Perdida_Total = FSub(r.Vol_Entregado, r.Vol_Vendido)
    /\ FGe(r.Perdida_Pesaje, Zero)
    /\ FGe(r.Perdida_Venta, Zero)
    /\ FGe(r.Perdida_Total, Zero)

\* C7 as stated: every milk record has the three losses as differences, all
\* >= 0, and Perdida_Pesaje + Perdida_Venta == Perdida_Total exactly.
C7_LossesAddUpExactly ==
    \A r \in LecheRows :
        /\ LossesAreDifferences(r)
        /\ FAdd(r.Perdida_Pesaje, r.Perdida_Venta) = r.Perdida_Total

\* C7 as amended: every milk record has the three losses as floating-point
\* differences, all >= 0, and Perdida_Pesaje + Perdida_Venta == Perdida_Total
\* whenever the two partial losses were computed without rounding.
C7_LossesAddUpWhenExact ==
    \A r \in LecheRows :
        /\ LossesAreDifferences(r)
        /\ (/\ ExactSub(r.Vol_Entregado, r.Vol_Pesado, r.Perdida_Pesaje)
            /\ ExactSub(r.Vol_Pesado, r.Vol_Vendido, r.Perdida_Venta))
              => FAdd(r.Perdida_Pesaje, r.Perdida_Venta) = r.Perdida_Total

\* A record with two positive partial losses, both computed without rounding.
C7_Witness ==
    \E r \in LecheRows :
        /\ FGt(r.Perdida_Pesaje, Zero)
        /\ FGt(r.Perdida_Venta, Zero)
        /\ ExactSub(r.Vol_Entregado, r.Vol_Pesado, r.Perdida_Pesaje)
        /\ ExactSub(r.Vol_Pesado, r.Vol_Vendido, r.Perdida_Venta)

(***************************************************************************)
(* SpecGasolina: the fuel form alone.                                      *)
(***************************************************************************)
\* 0, 20 and 3 litres; 0, 50 and 10 km; 2 and 1.5 per litre.
InGasolinaB ==
    FormsGasolina({"", "R"}, {Zero, FInt(20), FInt(3)},
                  {Zero, FInt(50), FInt(10)},
                  {FInt(2), F(3, 0 - 1)})

NextGasolina ==
    \/ \E s \in Sessions : ScriptRun(s)
    \/ \E s \in Sessions, in \in InGasolinaB :
          Rows("gasolina") < BuildRows /\ SubmitGasolina(s, in)
    \/ \E s \in Sessions, sel \in Sels(BuildRows) : DeleteGasolina(s, sel)

SpecGasolina == Init /\ [][NextGasolina]_vars

\* C5: the fuel form rejects every input in which exactly one of litres and
\* kilometres is positive and the other is zero, and appends the record of
\* every input with a route identifier and both zero or both positive.
C5_FuelValidation ==
    [][\A s \in Sessions : \A in \in InGasolinaB : SubmitGasolina(s, in) =>
        /\ (\/ in.litros_cargados = Zero /\ FGt(in.km_recorridos, Zero)
            \/ in.km_recorridos = Zero /\ FGt(in.litros_cargados, Zero))
              => Failed(s)
        /\ (/\ in.id_ruta # ""
            /\ \/ in.litros_cargados = Zero /\ in.km_recorridos = Zero
               \/ FGt(in.litros_cargados, Zero) /\ FGt(in.km_recorridos, Zero))
              => Persisted("gasolina", NewRowGasolina(in))
    ]_vars

\* litres = 0, km = 50 was submitted for a route and rejected.
C5_Witness ==
    \E s \in Sessions :
        /\ form[s].kind = "gasolina"
        /\ form[s].id_ruta = "R"
        /\ form[s].litros_cargados = Zero
        /\ form[s].km_recorridos = FInt(50)
        /\ msg[s] \in ErrorMsgs

GasolinaRows == {file["gasolina"].rows[i] : i \in 1..Len(file["gasolina"].rows)}

\* C8: every fuel record has Gasto_Total = litres * cost per litre and
\* Eficiencia_Km_Litro = km / litres when litres > 0, and exactly 0 when
\* litres = 0, which goes with km = 0; no submit divides by zero.
C8_FuelDerived ==
    /\ \A r \in GasolinaRows :
          /\ r.Gasto_Total = FMul(r.Litros_Cargados, r.Costo_Litro)
          /\ FGt(r.Litros_Cargados, Zero) =>
                r.Eficiencia_Km_Litro = FDiv(r.Km_Recorridos, r.Litros_Cargados)
          /\ r.Litros_Cargados = Zero =>
                r.Eficiencia_Km_Litro = Zero /\ r.Km_Recorridos = Zero
    /\ \A s \in Sessions : msg[s] # "ZeroDivisionError"

\* The record of a trip of 0 litres and 0 km is in the file.
C8_Witness ==
    \E r \in GasolinaRows :
        r.Litros_Cargados = Zero /\ r.Km_Recorridos = Zero

(***************************************************************************)
(* SpecGanado: the livestock ledger and produccion_media.                  *)
(***************************************************************************)
InGanadoB ==
    FormsGanado({"", "A", "B", "NA"}, {"Luna"}, {"Holstein"},
                {FInt(5), FInt(7), FInt(10)})

NextGanado ==
    \/ \E s \in Sessions : ScriptRun(s)
    \/ \E s \in Sessions, in \in InGanadoB :
          Rows("ganado") < MaxGanado /\ SubmitGanado(s, in)
    \/ \E s \in Sessions, sel \in Sels(MaxGanado) : DeleteGanado(s, sel)

SpecGanado == Init /\ [][NextGanado]_vars

\* The identifiers present in a livestock table; NaN is a missing identifier.
IdsPresent(g) == {g[i].ID_Animal : i \in 1..Len(g)} \ {NaN}

\* The exact sum of the Litros_Pesados of the rows 1..n of g that belong to
\* id, as an integer and an exponent.
RECURSIVE ExactSum(_, _, _)
ExactSum(g, id, n) ==
    IF n = 0 THEN Zero
    ELSE IF g[n].ID_Animal = id
         THEN <<SumN(ExactSum(g, id, n - 1), g[n].Litros_Pesados),
                DiffE(ExactSum(g, id, n - 1), g[n].Litros_Pesados)>>
         ELSE ExactSum(g, id, n - 1)

C10_DescendingByMean ==
    \A s \in Sessions : \A j \in 1..(Len(media[s]) - 1) :
        ~FGt(media[s][j + 1].Promedio_Diario, media[s][j].Promedio_Diario)

\* A table of two animals in which B, of the greater mean, stands before A.
C10_Witness ==
    \E s \in Sessions :
        /\ Len(media[s]) = 2
        /\ media[s][1].ID_Animal = Str("B")
        /\ media[s][2].ID_Animal = Str("A")
        /\ FGt(media[s][1].Promedio_Diario, media[s][2].Promedio_Diario)

(***************************************************************************)
(* SpecNombre: the livestock ledger with names and breeds that change.     *)
(***************************************************************************)
InGanadoN ==
    FormsGanado({"", "A", "B"}, {"", "Luna", "Sol"}, {"Holstein", "Jersey"},
                {FInt(5)})

NextNombre ==
    \/ \E s \in Sessions : ScriptRun(s)
    \/ \E s \in Sessions, in \in InGanadoN :
          Rows("ganado") < MaxGanado /\ SubmitGanado(s, in)
    \/ \E s \in Sessions, sel \in Sels(MaxGanado) : DeleteGanado(s, sel)

SpecNombre == Init /\ [][NextNombre]_vars

\* C11: in each row of produccion_media, Nombre and Raza are those of the
\* animal's most recent record, the record of that identifier with the
\* highest position in the ledger, whatever they are, an empty name included.
C11_MostRecentNameAndBreed ==
    \A s \in Sessions :
        LET g == df[s].ganado
            t == media[s]
        IN  \A j \in 1..Len(t) :
                LET last == SetMax({i \in 1..Len(g) : g[i].ID_Animal = t[j].ID_Animal})
                IN  /\ t[j].Nombre = g[last].Nombre_Animal
                    /\ t[j].Raza = g[last].Raza

(***************************************************************************)
(* SpecBorrado: the row eraser on a livestock ledger of three animals.     *)
(***************************************************************************)
InGanadoD == FormsGanado({"A", "B", "C"}, {"Luna"}, {"Holstein"}, {FInt(5)})

NextBorrado ==
    \/ \E s \in Sessions : ScriptRun(s)
    \/ \E s \in Sessions, in \in InGanadoD :
          Rows("ganado") < MaxGanado /\ SubmitGanado(s, in)
    \/ \E s \in Sessions, sel \in Sels(MaxGanado) : DeleteGanado(s, sel)

SpecBorrado == Init /\ [][NextBorrado]_vars

\* The rows i..Len(tab) of tab whose 0-based position is not in sel, in order.
RECURSIVE RowsNotIn(_, _, _)
RowsNotIn(tab, sel, i) ==
    IF i > Len(tab) THEN <<>>
    ELSE IF (i - 1) \in sel THEN RowsNotIn(tab, sel, i + 1)
    ELSE <<tab[i]>> \o RowsNotIn(tab, sel, i + 1)

\* C12: a delete with a set of 0-based positions that is not empty saves,
\* and writes to the file, the table of exactly the rows of the ledger whose
\* position is not in the set, in their order, at positions 0, 1, ...
C12_DeleteRemovesPositions ==
    [][\A s \in Sessions : \A sel \in Sels(MaxGanado) :
        (sel # {} /\ DeleteGanado(s, sel)) =>
            /\ saved'.kind = "ganado"
            /\ saved'.tab = RowsNotIn(LoadData("ganado"), sel, 1)
            /\ Len(saved'.tab) = Len(LoadData("ganado")) - Cardinality(sel)
            /\ file'.ganado = [exists |-> TRUE, rows |-> ToCsv("ganado", saved'.tab)]
    ]_vars

\* Position 1 of a ledger of three different rows was deleted: the rows
\* formerly at 0 and 2 are saved at 0 and 1.
C12_Witness ==
    \E s \in Sessions :
        LET g == df[s].ganado
        IN  /\ msg[s] = "warning"
            /\ saved.kind = "ganado"
            /\ Len(g) = 3
            /\ g[1] # g[2] /\ g[2] # g[3] /\ g[1] # g[3]
            /\ saved.tab = <<g[1], g[3]>>
            /\ Len(file.ganado.rows) = 2

(***************************************************************************)
(* Frame properties of delete, load and save, under Spec.                  *)
(***************************************************************************)
\* C13: a delete with an empty selection is a no-op: it saves nothing, does
\* not clear the cache, leaves the frames, the files and the cache entries
\* as they were, and ends with an st.info, not an error.
C13_EmptyDeleteIsNoOp ==
    [][\A s \in Sessions :
        (DeleteLeche(s, {}) \/ DeleteGanado(s, {}) \/ DeleteGasolina(s, {})) =>
            /\ file' = file
            /\ cache' = cache
            /\ df' = df
            /\ saved' = saved
            /\ msg'[s] = "info"
            /\ pc'[s] = "idle"
    ]_vars

\* An empty selection was submitted on a ledger that holds rows, after a save.
C13_Witness ==
    \E s \in Sessions :
        /\ msg[s] = "info"
        /\ pc[s] = "idle"
        /\ TotalRows > 0
        /\ saved.kind # "none"

\* C14: a load never changes a file, and loads with no save between them
\* return the same table; only a save changes a file, and it leaves in the
\* file exactly the rows of the table it was given, none of the rows that
\* were there before unless the table holds them.
C14_OnlySaveChangesFile ==
    [][/\ \A s \in Sessions : ScriptRun(s) => file' = file
       /\ file' = file => LoadAll' = LoadAll
       /\ file' # file =>
             /\ ~(\E s \in Sessions : ScriptRun(s))
             /\ saved'.kind \in Kinds
             /\ file'[saved'.kind].exists
             /\ Len(file'[saved'.kind].rows) = Len(saved'.tab)
             /\ \A i \in 1..Len(saved'.tab) :
                   file'[saved'.kind].rows[i] = FormatRow(saved'.kind, saved'.tab[i])
             /\ \A j \in Kinds \ {saved'.kind} : file'[j] = file[j]
    ]_vars

\* A save has replaced a file of two rows by a table of one row.
C14_Witness ==
    \E s \in Sessions :
        /\ saved.kind \in Kinds
        /\ msg[s] = "warning"
        /\ Len(df[s][saved.kind]) = 2
        /\ Len(saved.tab) = 1
        /\ Len(file[saved.kind].rows) = 1

\* C15: in every state of the milk ledger reached by accepted submits,
\* rejected submits and deletes, every record has Vol_Vendido <= Vol_Pesado
\* <= Vol_Entregado and its three losses >= 0.
C15_MilkLedgerInvariant ==
    \A i \in 1..Len(file.leche.rows) :
        LET r == file.leche.rows[i]
        IN  /\ FGe(r.Vol_Pesado, r.Vol_Vendido)
            /\ FGe(r.Vol_Entregado, r.Vol_Pesado)
            /\ FGe(r.Perdida_Pesaje, Zero)
            /\ FGe(r.Perdida_Venta, Zero)
            /\ FGe(r.Perdida_Total, Zero)

\* The milk ledger holds a record with a positive loss and the last submit
\* was rejected for its volumes.
C15_Witness ==
    \E s \in Sessions :
        /\ Len(file.leche.rows) = 1
        /\ FGt(file.leche.rows[1].Perdida_Total, Zero)
        /\ form[s].kind = "leche"
        /\ msg[s] = "error_volumen"

\* C16: an accepted submit on a ledger of n rows writes n + 1 rows: the n
\* rows that were there, in the same order and with every field as it was,
\* and the new record last; no step but a delete removes a record, and no
\* step changes a field of a record that stays.
C16_AppendKeepsRecords ==
    [][/\ \A s \in Sessions :
            /\ \A in \in InLeche : (CheckLeche(in) = "ok" /\ SubmitLeche(s, in)) =>
                  file'.leche.rows =
                      Append(file.leche.rows, FormatRow("leche", NewRowLeche(in)))
            /\ \A in \in InGanado : (CheckGanado(in) = "ok" /\ SubmitGanado(s, in)) =>
                  file'.ganado.rows =
                      Append(file.ganado.rows, FormatRow("ganado", NewRowGanado(in)))
            /\ \A in \in InGasolina : (CheckGasolina(in) = "ok" /\ SubmitGasolina(s, in)) =>
                  file'.gasolina.rows =
                      Append(file.gasolina.rows, FormatRow("gasolina", NewRowGasolina(in)))
       /\ \A k \in Kinds :
            Len(file'[k].rows) >= Len(file[k].rows) =>
                \A i \in 1..Len(file[k].rows) : file'[k].rows[i] = file[k].rows[i]
    ]_vars

\* C19: a save of one ledger changes only that ledger's file and drops only
\* that ledger's cache entry: a submit or a delete on one ledger leaves the
\* files and the cache entries of the other two as they were.
C19_SaveTouchesOneLedger ==
    [][/\ \A j \in Kinds : file'[j] # file[j] => j = saved'.kind
       /\ \A s \in Sessions : (pc[s] = "idle" /\ pc'[s] = "run") =>
             /\ saved'.kind \in Kinds
             /\ cache'[saved'.kind] = NoEntry
             /\ \A j \in Kinds \ {saved'.kind} :
                   file'[j] = file[j] /\ cache'[j] = cache[j]
    ]_vars

\* A ledger has just been saved while another ledger holds rows, in its
\* file and in its cache entry.
C19_Witness ==
    \E s \in Sessions :
        /\ pc[s] = "run"
        /\ saved.kind \in Kinds
        /\ ~cache[saved.kind].hit
        /\ \E j \in Kinds \ {saved.kind} :
              Len(file[j].rows) > 0 /\ cache[j].hit /\ Len(cache[j].tab) > 0

\* What the file of ledger k reads as; the empty frame when there is no file.
FileTable(k) == IF file[k].exists THEN ReadCsv(k, file[k].rows) ELSE <<>>

\* C20: cache coherence: a loader's cache entry, when there is one, is the
\* table in that ledger's file (the empty table when there is no file), so
\* that the frames of a finished run are the tables in the files.
C20_CacheCoherence ==
    \A k \in Kinds :
        /\ cache[k].hit => cache[k].tab = FileTable(k)
        /\ \A s \in Sessions : pc[s] = "idle" => df[s][k] = FileTable(k)

\* After a save and the run that follows it, the entry of the saved ledger
\* is there again and holds rows.
C20_Witness ==
    \E s \in Sessions :
        /\ pc[s] = "idle"
        /\ saved.kind \in Kinds
        /\ cache[saved.kind].hit
        /\ Len(cache[saved.kind].tab) > 0
        /\ Len(saved.tab) = Len(cache[saved.kind].tab)

(***************************************************************************)
(* SpecShown: two sessions on the milk ledger, the runs of the script one  *)
(* after the other.  The files and the st.cache_data entries belong to the *)
(* process; each session has its page, the frames of its last run and its  *)
(* widget values.  A session's page goes on showing the ledger of its last *)
(* run while the other session changes the file.                           *)
(***************************************************************************)
Init2 ==
    /\ file = [k \in Kinds |-> NoFile]
    /\ cache = [k \in Kinds |-> NoEntry]
    /\ df = [s \in {1, 2} |-> [k \in Kinds |-> <<>>]]
    /\ pc = [s \in {1, 2} |-> "run"]
    /\ form = [s \in {1, 2} |-> NoForm]
    /\ msg = [s \in {1, 2} |-> "none"]
    /\ saved = NoSave
    /\ media = [s \in {1, 2} |-> <<>>]

\* rows_to_delete of a run, lines 175-179: sel was chosen among the nShown
\* ID_Fila values of the page; the run draws the multiselect with the nNow
\* values of the frame it loaded.  A widget drawn with other options is
\* another widget and starts from its default, the empty list.
RowsToDelete(sel, nShown, nNow) == IF nNow = nShown THEN sel ELSE {}

\* The records that the positions sel designate on a page showing tab.
Designated(tab, sel) == [p \in sel |-> tab[p + 1]]

\* Mutant: the rows are dropped from the frame the page shows, not from the
\* frame this run loaded.
DeleteShownFromPage(s, k, sel, after255) ==
    /\ pc[s] = "idle"
    /\ Len(df[s][k]) > 0
    /\ sel \subseteq 0..(Len(df[s][k]) - 1)
    /\ form' = [form EXCEPT ![s] = [kind |-> "delete", ledger |-> k,
                                    rows_to_delete |-> sel,
                                    designated |-> Designated(df[s][k], sel)]]
    /\ LET rtd == RowsToDelete(sel, Len(df[s][k]), Len(LoadData(k)))
       IN  IF Len(LoadData(k)) = 0 THEN RunToEnd(s, LoadAll, "none")
           ELSE IF rtd # {}
           THEN SaveDataAndRerun(s, LoadAll, k, DropRows(df[s][k], rtd),
                                 "warning", after255)
           ELSE RunToEnd(s, LoadAll, "info")

\* The delete button pressed on the page session s shows, lines 169-190:
\* sel are the ID_Fila values selected on that page, captured from the frame
\* df[s][k] of the session's last run.  The press runs the script, which
\* loads the ledger again; the section is drawn only for a frame that is
\* not empty.  form keeps the selection and the records it designated.
DeleteShown(s, k, sel, after255) ==
    /\ pc[s] = "idle"
    /\ Len(df[s][k]) > 0
    /\ sel \subseteq 0..(Len(df[s][k]) - 1)
    /\ form' = [form EXCEPT ![s] = [kind |-> "delete", ledger |-> k,
                                    rows_to_delete |-> sel,
                                    designated |-> Designated(df[s][k], sel)]]
    /\ LET rtd == RowsToDelete(sel, Len(df[s][k]), Len(LoadData(k)))
       IN  IF Len(LoadData(k)) = 0 THEN RunToEnd(s, LoadAll, "none")
           ELSE IF rtd # {}
           THEN SaveDataAndRerun(s, LoadAll, k, DropRows(LoadData(k), rtd),
                                 "warning", after255)
           ELSE RunToEnd(s, LoadAll, "info")

InLecheS == FormsLeche({"A", "B"}, {FInt(5)})

\* Session 2 registers lots and deletes rows of the page it has just
\* drawn; session 1 deletes rows of the page it shows, drawn at its last run.
NextShown ==
    \/ \E s \in Sessions : ScriptRun(s)
    \/ \E in \in InLecheS : Rows("leche") < MaxRows /\ SubmitLeche(2, in)
    \/ \E sel \in Sels(MaxRows) : DeleteLeche(2, sel)
    \/ \E sel \in Sels(MaxRows) : DeleteShown(1, "leche", sel, FALSE)

SpecShown == Init2 /\ [][NextShown]_vars

\* The delete of session 1 saved the ledger it loaded without the rows at the
\* positions sel, and at one of them stood a record other than the one the
\* page designated.
RemovesOthers(sel) ==
    /\ pc'[1] = "run"
    /\ saved'.tab = RowsNotIn(LoadData("leche"), sel, 1)
    /\ \E p \in sel : LoadData("leche")[p + 1] # df[1].leche[p + 1]

\* C17 as stated: whenever the ledger was changed by appends or deletes
\* between the capture of the positions and the delete that uses them, that
\* delete removes records other than the ones the positions designated.
C17_StaleDeleteRemovesOthers ==
    [][\A sel \in Sels(MaxRows) :
        (/\ sel # {}
         /\ LoadData("leche") # df[1].leche
         /\ DeleteShown(1, "leche", sel, FALSE)) => RemovesOthers(sel)
    ]_vars

\* C17 as amended: a delete uses the captured positions on the ledger its
\* own run loads: it removes nothing, or exactly the rows at those positions
\* of that ledger, and it does remove them when that ledger has as many rows
\* as the page showed; so it removes a record other than the designated one
\* wherever another record stands at a captured position.
C17_DeleteActsOnPositions ==
    [][\A sel \in Sels(MaxRows) :
        (sel # {} /\ DeleteShown(1, "leche", sel, FALSE)) =>
            /\ pc'[1] = "run" =>
                  /\ saved'.tab = RowsNotIn(LoadData("leche"), sel, 1)
                  /\ file'.leche.rows = ToCsv("leche", saved'.tab)
            /\ pc'[1] # "run" => file' = file /\ saved' = saved
            /\ Len(LoadData("leche")) = Len(df[1].leche) =>
                  /\ pc'[1] = "run"
                  /\ (\E p \in sel : LoadData("leche")[p + 1] # df[1].leche[p + 1])
                        => RemovesOthers(sel)
    ]_vars

\* Session 1 has deleted a row that is not the record its page designated.
C17_Witness ==
    /\ form[1].kind = "delete"
    /\ pc[1] = "run"
    /\ msg[1] = "warning"
    /\ \E p \in form[1].rows_to_delete :
          df[1].leche[p + 1] # form[1].designated[p]
    /\ Len(saved.tab) = Len(df[1].leche) - Cardinality(form[1].rows_to_delete)

(***************************************************************************)
(* SpecWriters: two sessions on the milk ledger whose runs interleave.     *)
(* Streamlit runs the script of each session in a thread of its own, so    *)
(* the run of one session can stand between the loads of lines 69-71 and   *)
(* the handler while the run of the other session saves.  pc[s] = "loaded" *)
(* is that place; df[s] holds the frames the run loaded and form[s] the    *)
(* values of the widgets the run was started with.                         *)
(***************************************************************************)
\* The run started by a button press, up to the loads of lines 69-71.
LoadStep(s, in) ==
    /\ pc[s] = "idle"
    /\ form' = [form EXCEPT ![s] = in]
    /\ df' = [df EXCEPT ![s] = LoadAll]
    /\ cache' = CacheFilled(LoadAll)
    /\ pc' = [pc EXCEPT ![s] = "loaded"]
    /\ UNCHANGED <<file, msg, saved, media>>

\* save_data_and_rerun(tab, DATA_FILE_LECHE) in the run of session s.
SaveStep(s, tab, m) ==
    /\ file' = FileAfterSave(file, "leche", tab)
    /\ cache' = CacheAfterSave(cache, "leche")
    /\ pc' = [pc EXCEPT ![s] = "run"]
    /\ msg' = [msg EXCEPT ![s] = m]
    /\ saved' = [kind |-> "leche", tab |-> tab]
    /\ UNCHANGED <<df, form, media>>

\* The run goes on to the last line of the script without a save.
EndStep(s, m) ==
    /\ pc' = [pc EXCEPT ![s] = "idle"]
    /\ msg' = [msg EXCEPT ![s] = m]
    /\ media' \in {[media EXCEPT ![s] = t] : t \in ProduccionMedia(df[s].ganado)}
    /\ UNCHANGED <<file, cache, df, form, saved>>

\* Mutant: the handler loads the ledger again before it appends.
SubmitLecheStepReload(s) ==
    /\ pc[s] = "loaded"
    /\ form[s].kind = "leche"
    /\ IF CheckLeche(form[s]) = "ok"
       THEN SaveStep(s, Append(LoadData("leche"), NewRowLeche(form[s])), "none")
       ELSE EndStep(s, CheckLeche(form[s]))

\* Lines 105-133 on the frame df_leche this run loaded.
SubmitLecheStep(s) ==
    /\ pc[s] = "loaded"
    /\ form[s].kind = "leche"
    /\ IF CheckLeche(form[s]) = "ok"
       THEN SaveStep(s, Append(df[s].leche, NewRowLeche(form[s])), "none")
       ELSE EndStep(s, CheckLeche(form[s]))

\* Lines 181-190 on the frame df_leche this run loaded.
DeleteLecheStep(s) ==
    /\ pc[s] = "loaded"
    /\ form[s].kind = "delete"
    /\ IF form[s].rows_to_delete # {}
       THEN SaveStep(s, DropRows(df[s].leche, form[s].rows_to_delete), "warning")
       ELSE EndStep(s, "info")

\* The delete button pressed with the rows sel selected on a page that
\* shows the ledger as it is.
DeleteForms ==
    {[kind |-> "delete", ledger |-> "leche", rows_to_delete |-> sel] :
        sel \in Sels(Len(LoadData("leche")))}

InLecheW == FormsLeche({"A", "B"}, {FInt(5)})

\* A run with no button pressed is taken where one is due: the first run of
\* a session and the run st.experimental_rerun() asked for.
NextWriters ==
    \/ \E s \in Sessions : pc[s] = "run" /\ ScriptRun(s)
    \/ \E s \in Sessions, in \in InLecheW :
          Rows("leche") < MaxRows /\ LoadStep(s, in)
    \/ \E s \in Sessions, in \in DeleteForms :
          Len(LoadData("leche")) > 0 /\ LoadStep(s, in)
    \/ \E s \in Sessions : SubmitLecheStep(s)
    \/ \E s \in Sessions : DeleteLecheStep(s)

SpecWriters == Init2 /\ [][NextWriters]_vars

\* C18: when a writer saves after another writer has saved since its load,
\* the file holds the table of the writer that saves last, built from the
\* ledger it loaded: the change of the first writer is not in it, and no
\* error is shown to either.
C18_LastWriterWins ==
    [][\A s \in Sessions :
        (pc[s] = "loaded" /\ pc'[s] = "run" /\ FileTable("leche") # df[s].leche) =>
            /\ saved'.tab = IF form[s].kind = "leche"
                            THEN Append(df[s].leche, NewRowLeche(form[s]))
                            ELSE RowsNotIn(df[s].leche, form[s].rows_to_delete, 1)
            /\ file'.leche.rows = ToCsv("leche", saved'.tab)
            /\ msg'[s] \notin ErrorMsgs
            /\ \A o \in Sessions \ {s} : msg'[o] = msg[o] /\ pc'[o] = pc[o]
    ]_vars

\* Both sessions loaded the same ledger and each has appended its lot and
\* saved; the file holds one lot more than they loaded, the lot of one of
\* them, and neither was shown an error.
C18_Witness ==
    /\ pc[1] = "run" /\ pc[2] = "run"
    /\ form[1].kind = "leche" /\ form[2].kind = "leche"
    /\ form[1].id_lote # form[2].id_lote
    /\ df[1].leche = df[2].leche
    /\ Len(file.leche.rows) = Len(df[1].leche) + 1
    /\ msg[1] = "none" /\ msg[2] = "none"

====
